---- MODULE Spec2Model ----
(***************************************************************************)
(* Verification model of the sf-skills CLI adapters                        *)
(* (tools/cli_adapters: opencode.py, codex.py, gemini.py).                 *)
(*                                                                         *)
(* Text (a Python str) is a sequence of tokens.  Every token is a chunk of *)
(* characters; the chunks are cut so that each literal the code searches   *)
(* for or substitutes ("templates/", the back-quoted "docs", "from shared", the usage    *)
(* headings, ...) is a sequence of whole tokens and no occurrence of such  *)
(* a literal can straddle the inside of any other token.  Substring        *)
(* search, str.replace and re.sub are then computed on token sequences     *)
(* exactly as Python computes them on characters: leftmost first,          *)
(* non-overlapping, in one pass.                                           *)
(*                                                                         *)
(* A path is a sequence of path components.  In a token the back-quote     *)
(* character is written [backtick] and a code fence [fence].               *)
(***************************************************************************)
EXTENDS Integers, Sequences, FiniteSets, TLC

VARIABLES
    adapter,       \* the adapter picked from the ADAPTERS registry
    skill_name,    \* transform_skill_md's skill_name argument
    input,         \* the manifest text first handed to transform_skill_md
    content,       \* the manifest text as returned by the last call
    arg,           \* the content argument of the last transform_skill_md call
    calls,         \* number of transform_skill_md calls made so far
    source,        \* SkillSource: [manifest, scripts] as found on disk
    sharedFs,      \* the shared-modules root: [dirs, files]
    output,        \* SkillOutput returned by transform_skill, or NoOutput
    pc,            \* position of the transform_skill caller
    cwd,           \* Path.cwd()
    dirs,          \* the install directories that exist on disk
    install_path,  \* the value last returned by default_install_path
    called         \* the adapter whose default_install_path returned it

vars == <<adapter, skill_name, input, content, arg, calls, source,
          sharedFs, output, pc, cwd, dirs, install_path, called>>

skillVars == <<source, sharedFs, output, pc>>
pathVars == <<cwd, dirs, install_path, called>>

ADAPTERS == {"opencode", "codex", "gemini"}

-----------------------------------------------------------------------------
(* Python string primitives on token sequences *)

\* s[i:].startswith(p)
IsAt(s, p, i) ==
    /\ i >= 1
    /\ i + Len(p) - 1 <= Len(s)
    /\ \A k \in 1..Len(p) : s[i + k - 1] = p[k]

\* p in s
Contains(s, p) == \E i \in 1..(Len(s) - Len(p) + 1) : IsAt(s, p, i)

RECURSIVE ReplaceFrom(_, _, _, _)
ReplaceFrom(s, old, new, i) ==
    IF i > Len(s) THEN <<>>
    ELSE IF IsAt(s, old, i) THEN new \o ReplaceFrom(s, old, new, i + Len(old))
    ELSE <<s[i]>> \o ReplaceFrom(s, old, new, i + 1)

\* s.replace(old, new): every non-overlapping occurrence, left to right
replace(s, old, new) == ReplaceFrom(s, old, new, 1)

-----------------------------------------------------------------------------
(* Manifest text: tokens *)

TEMPLATES == "templates"
DOCS == "docs"
SLASH == "/"
TICK == "[backtick]"
ASSETS == "assets"
REFERENCES == "references"
PLUGIN_ROOT == "${CLAUDE_PLUGIN_ROOT}"
SKILL_CALL == "Skill(skill=\"sf-apex\")"
SKILL_REF == "@sf-apex"

OpenCodeHeading == "## OpenCode CLI Usage"
CodexHeading == "## Codex CLI Usage"
GeminiHeading == "## Gemini CLI Usage"

Heading(a) ==
    CASE a = "opencode" -> OpenCodeHeading
      [] a = "codex" -> CodexHeading
      [] a = "gemini" -> GeminiHeading

\* CLIAdapter._common_skill_md_transforms: the placeholder variable is
\* removed and the Skill() invocation syntax is rewritten.
_common_skill_md_transforms(c) ==
    replace(replace(c, <<PLUGIN_ROOT>>, <<>>), <<SKILL_CALL>>, <<SKILL_REF>>)

opencode_section(name) ==
    << "\n\n---\n\n", OpenCodeHeading,
       "\n\nThis skill is compatible with OpenCode CLI. To use:\n\n[fence]bash\n# The skill is automatically loaded when placed in .opencode/skill/",
       name,
       "/\n# OpenCode will discover it and make it available in conversations.\n\n# To manually invoke validation scripts:\ncd .opencode/skill/",
       name,
       "/scripts\npython validate_*.py path/to/your/file\n[fence]\n\n### Validation Scripts\n\nThe [backtick]scripts/[backtick] directory contains Python validation scripts that can be run\nmanually after editing files. In Claude Code, these run automatically via\nPostToolUse hooks.\n\nSee [backtick]scripts/README.md[backtick] for detailed usage instructions.\n" >>

codex_section(name) ==
    << "\n\n---\n\n", CodexHeading,
       "\n\nThis skill is compatible with OpenAI Codex CLI. To use:\n\n[fence]bash\n# Enable skills in Codex\ncodex --enable skills\n\n# The skill is automatically loaded from .codex/skills/",
       name,
       "/\n\n# To run validation scripts manually:\ncd .codex/skills/",
       name,
       "/scripts\npython validate_*.py path/to/your/file\n[fence]\n\n### Directory Structure\n\nCodex CLI uses slightly different directory names:\n- ",
       TICK, ASSETS, SLASH, TICK, " - Code ", TEMPLATES, " (called ",
       TICK, TEMPLATES, SLASH, TICK, " in Claude Code)\n- ",
       TICK, REFERENCES, SLASH, TICK, " - Documentation (called ",
       TICK, DOCS, SLASH, TICK,
       " in Claude Code)\n- [backtick]scripts/[backtick] - Validation scripts\n\nSee [backtick]scripts/README.md[backtick] for validation script usage.\n" >>

gemini_section(name) ==
    << "\n\n---\n\n", GeminiHeading,
       "\n\nThis skill is compatible with Google Gemini CLI. To use:\n\n[fence]bash\n# Skills are installed to ~/.gemini/skills/",
       name,
       "/\n# Gemini CLI automatically discovers and loads them.\n\n# Restart Gemini CLI to load new skills\ngemini\n\n# To run validation scripts manually:\ncd ~/.gemini/skills/",
       name,
       "/scripts\npython validate_*.py path/to/your/file\n[fence]\n\n### Features\n\nGemini CLI with this skill provides:\n- Automatic skill discovery from ~/.gemini/skills/\n- 1M+ token context window (Gemini 2.5 Pro)\n- Built-in Google Search grounding\n- MCP extensibility\n\n### Shared Skills\n\nYou can share skills between Gemini CLI and Claude Code by symlinking:\n\n[fence]bash\nln -s ~/.gemini/skills/",
       name, " ~/.claude/skills/", name,
       "\n[fence]\n\nSee [backtick]scripts/README.md[backtick] for validation script usage.\n" >>

\* faulty variant: the "docs/" replacement is left out
CodexRename_SkipsDocs(c) ==
    LET c1 == replace(c, <<TEMPLATES, SLASH>>, <<ASSETS, SLASH>>)
        c3 == replace(c1, <<TICK, TEMPLATES, TICK>>, <<TICK, ASSETS, TICK>>)
        c4 == replace(c3, <<TICK, DOCS, TICK>>, <<TICK, REFERENCES, TICK>>)
    IN  c4

\* codex.py: the four directory-reference replacements, in order
CodexRename(c) ==
    LET c1 == replace(c, <<TEMPLATES, SLASH>>, <<ASSETS, SLASH>>)
        c2 == replace(c1, <<DOCS, SLASH>>, <<REFERENCES, SLASH>>)
        c3 == replace(c2, <<TICK, TEMPLATES, TICK>>, <<TICK, ASSETS, TICK>>)
        c4 == replace(c3, <<TICK, DOCS, TICK>>, <<TICK, REFERENCES, TICK>>)
    IN  c4

OpenCode_transform_skill_md(c, name) ==
    LET c0 == _common_skill_md_transforms(c)
    IN  IF ~Contains(c0, <<OpenCodeHeading>>) THEN c0 \o opencode_section(name) ELSE c0

Codex_transform_skill_md(c, name) ==
    LET c0 == CodexRename(_common_skill_md_transforms(c))
    IN  IF ~Contains(c0, <<CodexHeading>>) THEN c0 \o codex_section(name) ELSE c0

\* faulty variant: the "only add if not already present" guard is dropped
Gemini_transform_skill_md_AlwaysAppends(c, name) ==
    _common_skill_md_transforms(c) \o gemini_section(name)

Gemini_transform_skill_md(c, name) ==
    LET c0 == _common_skill_md_transforms(c)
    IN  IF ~Contains(c0, <<GeminiHeading>>) THEN c0 \o gemini_section(name) ELSE c0

transform_skill_md(a, c, name) ==
    CASE a = "opencode" -> OpenCode_transform_skill_md(c, name)
      [] a = "codex" -> Codex_transform_skill_md(c, name)
      [] a = "gemini" -> Gemini_transform_skill_md(c, name)

-----------------------------------------------------------------------------
(* Script and shared-module text: tokens *)

FROM == "from"
IMPORT == "import"
SHARED == "shared"
SP == " "
DOT == "."

\* Tokens made of word characters only (regex \w)
WordTokens ==
    {FROM, IMPORT, SHARED, "lsp_engine", "code_analyzer", "lsp_client",
     "connect", "foo"}

RECURSIVE WordRun(_, _)
\* the longest run of word characters starting at s[i]: what (\w+) captures
WordRun(s, i) ==
    IF i <= Len(s) /\ s[i] \in WordTokens
    THEN <<s[i]>> \o WordRun(s, i + 1)
    ELSE <<>>

RECURSIVE SubFrom(_, _, _, _)
SubFrom(s, pat, repl, i) ==
    IF i > Len(s) THEN <<>>
    ELSE IF IsAt(s, pat, i) /\ WordRun(s, i + Len(pat)) # <<>>
    THEN LET g == WordRun(s, i + Len(pat))
         IN  repl \o g \o SubFrom(s, pat, repl, i + Len(pat) + Len(g))
    ELSE <<s[i]>> \o SubFrom(s, pat, repl, i + 1)

\* re.sub(pat + r'(\w+)', repl + r'\1', s)
re_sub(s, pat, repl) == SubFrom(s, pat, repl, 1)

\* OpenCodeAdapter._rewrite_shared_imports
_rewrite_shared_imports(c) ==
    LET c1 == re_sub(c, <<FROM, SP, SHARED, DOT>>, <<FROM, SP, DOT, SHARED, DOT>>)
        c2 == re_sub(c1, <<IMPORT, SP, SHARED, DOT>>,
                     <<FROM, SP, DOT, SP, IMPORT, SP, SHARED, DOT>>)
    IN  c2

\* faulty variant: every skill is taken to need the shared modules
OpenCode_needs_shared_modules_Always(scripts) == TRUE

\* _needs_shared_modules: script contents are text (str), so the isinstance
\* test passes for every value of the mapping
OpenCode_needs_shared_modules(scripts) ==
    \E k \in DOMAIN scripts :
        \/ Contains(scripts[k], <<FROM, SP, SHARED>>)
        \/ Contains(scripts[k], <<IMPORT, SP, SHARED>>)
        \/ Contains(scripts[k], <<"lsp_client">>)
        \/ Contains(scripts[k], <<"code_analyzer">>)

\* faulty variant: only the two import forms are looked for
Codex_needs_shared_modules_ImportsOnly(scripts) ==
    \E k \in DOMAIN scripts :
        \/ Contains(scripts[k], <<FROM, SP, SHARED>>)
        \/ Contains(scripts[k], <<IMPORT, SP, SHARED>>)

Codex_needs_shared_modules(scripts) ==
    \E k \in DOMAIN scripts :
        \/ Contains(scripts[k], <<FROM, SP, SHARED>>)
        \/ Contains(scripts[k], <<IMPORT, SP, SHARED>>)
        \/ Contains(scripts[k], <<"lsp_client">>)
        \/ Contains(scripts[k], <<"code_analyzer">>)

Gemini_needs_shared_modules(scripts) ==
    \E k \in DOMAIN scripts :
        \/ Contains(scripts[k], <<FROM, SP, SHARED>>)
        \/ Contains(scripts[k], <<IMPORT, SP, SHARED>>)
        \/ Contains(scripts[k], <<"lsp_client">>)
        \/ Contains(scripts[k], <<"code_analyzer">>)

-----------------------------------------------------------------------------
(* The shared-modules root *)

LSP_ENGINE == "lsp-engine"
CODE_ANALYZER == "code_analyzer"

\* Path.suffix of a file name
Suffix(name) ==
    CASE name \in {"client.py", "util.py", "analyzer.py", "helper.py", "validate.py"} -> ".py"
      [] name \in {"rules.yml", "config.yml"} -> ".yml"
      [] name = "ruleset.xml" -> ".xml"
      [] OTHER -> ".txt"

\* dir.rglob("*" + ext), relative to shared_dir: every file at any depth
\* below dir whose name ends with ext
rglob(fs, dir, ext) ==
    {p \in DOMAIN fs.files : p[1] = dir /\ Len(p) >= 2 /\ Suffix(p[Len(p)]) = ext}

exists(fs, dir) == dir \in fs.dirs

\* faulty variant: the configuration files are rewritten like the source files
OpenCode_bundle_shared_modules_RewritesAll(fs) ==
    LET lsp == IF exists(fs, LSP_ENGINE) THEN rglob(fs, LSP_ENGINE, ".py") ELSE {}
        py  == IF exists(fs, CODE_ANALYZER) THEN rglob(fs, CODE_ANALYZER, ".py") ELSE {}
        yml == IF exists(fs, CODE_ANALYZER) THEN rglob(fs, CODE_ANALYZER, ".yml") ELSE {}
        xml == IF exists(fs, CODE_ANALYZER) THEN rglob(fs, CODE_ANALYZER, ".xml") ELSE {}
    IN  [p \in lsp \cup py \cup yml \cup xml |-> _rewrite_shared_imports(fs.files[p])]

OpenCode_bundle_shared_modules(fs) ==
    LET lsp == IF exists(fs, LSP_ENGINE) THEN rglob(fs, LSP_ENGINE, ".py") ELSE {}
        py  == IF exists(fs, CODE_ANALYZER) THEN rglob(fs, CODE_ANALYZER, ".py") ELSE {}
        yml == IF exists(fs, CODE_ANALYZER) THEN rglob(fs, CODE_ANALYZER, ".yml") ELSE {}
        xml == IF exists(fs, CODE_ANALYZER) THEN rglob(fs, CODE_ANALYZER, ".xml") ELSE {}
    IN  [p \in lsp \cup py \cup yml \cup xml |->
            IF p \in lsp \cup py
            THEN _rewrite_shared_imports(fs.files[p])
            ELSE fs.files[p]]

\* faulty variant: the lsp-engine subtree is not collected
Codex_bundle_shared_modules_NoLsp(fs) ==
    LET py  == IF exists(fs, CODE_ANALYZER) THEN rglob(fs, CODE_ANALYZER, ".py") ELSE {}
        yml == IF exists(fs, CODE_ANALYZER) THEN rglob(fs, CODE_ANALYZER, ".yml") ELSE {}
        xml == IF exists(fs, CODE_ANALYZER) THEN rglob(fs, CODE_ANALYZER, ".xml") ELSE {}
    IN  [p \in py \cup yml \cup xml |-> fs.files[p]]

Codex_bundle_shared_modules(fs) ==
    LET lsp == IF exists(fs, LSP_ENGINE) THEN rglob(fs, LSP_ENGINE, ".py") ELSE {}
        py  == IF exists(fs, CODE_ANALYZER) THEN rglob(fs, CODE_ANALYZER, ".py") ELSE {}
        yml == IF exists(fs, CODE_ANALYZER) THEN rglob(fs, CODE_ANALYZER, ".yml") ELSE {}
        xml == IF exists(fs, CODE_ANALYZER) THEN rglob(fs, CODE_ANALYZER, ".xml") ELSE {}
    IN  [p \in lsp \cup py \cup yml \cup xml |-> fs.files[p]]

\* faulty variant: a missing lsp-engine ends the collection
Gemini_bundle_shared_modules_EarlyReturn(fs) ==
    IF ~exists(fs, LSP_ENGINE) THEN [p \in {} |-> <<>>]
    ELSE
    LET lsp == rglob(fs, LSP_ENGINE, ".py")
        py  == IF exists(fs, CODE_ANALYZER) THEN rglob(fs, CODE_ANALYZER, ".py") ELSE {}
        yml == IF exists(fs, CODE_ANALYZER) THEN rglob(fs, CODE_ANALYZER, ".yml") ELSE {}
        xml == IF exists(fs, CODE_ANALYZER) THEN rglob(fs, CODE_ANALYZER, ".xml") ELSE {}
    IN  [p \in lsp \cup py \cup yml \cup xml |-> fs.files[p]]

Gemini_bundle_shared_modules(fs) ==
    LET lsp == IF exists(fs, LSP_ENGINE) THEN rglob(fs, LSP_ENGINE, ".py") ELSE {}
        py  == IF exists(fs, CODE_ANALYZER) THEN rglob(fs, CODE_ANALYZER, ".py") ELSE {}
        yml == IF exists(fs, CODE_ANALYZER) THEN rglob(fs, CODE_ANALYZER, ".yml") ELSE {}
        xml == IF exists(fs, CODE_ANALYZER) THEN rglob(fs, CODE_ANALYZER, ".xml") ELSE {}
    IN  [p \in lsp \cup py \cup yml \cup xml |-> fs.files[p]]

\* faulty variant: a key the mapping already holds is kept (setdefault)
MergeShared_KeepExisting(scripts, modules) ==
    LET staged == {<<SHARED>> \o p : p \in DOMAIN modules}
    IN  [k \in DOMAIN scripts \cup staged |->
            IF k \in DOMAIN scripts THEN scripts[k] ELSE modules[Tail(k)]]

\* for path, content in shared_modules.items():
\*     output.scripts[f"shared/{path}"] = content
MergeShared(scripts, modules) ==
    LET staged == {<<SHARED>> \o p : p \in DOMAIN modules}
    IN  [k \in DOMAIN scripts \cup staged |->
            IF k \in staged THEN modules[Tail(k)] ELSE scripts[k]]

\* CLIAdapter.transform_skill: the manifest is read and transformed, every
\* file under scripts/ is copied verbatim, keyed by its path below scripts/
Base_transform_skill(a, src, name) ==
    [skill_md |-> transform_skill_md(a, src.manifest, name),
     scripts  |-> src.scripts]

OpenCode_transform_skill(src, fs, name) ==
    LET out == Base_transform_skill("opencode", src, name)
    IN  IF OpenCode_needs_shared_modules(out.scripts)
        THEN [out EXCEPT !.scripts =
                 MergeShared(out.scripts, OpenCode_bundle_shared_modules(fs))]
        ELSE out

Codex_transform_skill(src, fs, name) ==
    LET out == Base_transform_skill("codex", src, name)
    IN  IF Codex_needs_shared_modules(out.scripts)
        THEN [out EXCEPT !.scripts =
                 MergeShared(out.scripts, Codex_bundle_shared_modules(fs))]
        ELSE out

Gemini_transform_skill(src, fs, name) ==
    LET out == Base_transform_skill("gemini", src, name)
    IN  IF Gemini_needs_shared_modules(out.scripts)
        THEN [out EXCEPT !.scripts =
                 MergeShared(out.scripts, Gemini_bundle_shared_modules(fs))]
        ELSE out

-----------------------------------------------------------------------------
(* Install path policy *)

\* faulty variant: the adapter's own directory is preferred when it exists
OpenCode_default_install_path_PrefersOwn(wd, existing) ==
    LET opencode_path == wd \o <<".opencode", "skill">>
        claude_path == wd \o <<".claude", "skills">>
    IN  IF opencode_path \in existing THEN opencode_path
        ELSE IF claude_path \in existing THEN claude_path ELSE opencode_path

OpenCode_default_install_path(wd, existing) ==
    LET opencode_path == wd \o <<".opencode", "skill">>
        claude_path == wd \o <<".claude", "skills">>
    IN  IF claude_path \in existing THEN claude_path ELSE opencode_path

Codex_default_install_path(wd, existing) == wd \o <<".codex", "skills">>

HOME == <<"home", "dev">>

Gemini_default_install_path(wd, existing) == HOME \o <<".gemini", "skills">>

-----------------------------------------------------------------------------
(* Manifest transformation: transform_skill_md applied, and applied again  *)
(* to its own result.                                                      *)

MaxLen == 5
MaxMdLen == 3
MaxCalls == 2

SeqsUpTo(S, n) == UNION {[1..k -> S] : k \in 0..n}

SkillNames == {"sf-apex", "sf-flow"}

\* Manifest tokens the directory renames read or write
RenameAlphabet == {TEMPLATES, DOCS, SLASH, TICK, CodexHeading, PLUGIN_ROOT}

\* Manifest tokens the common transform and the heading guard read
MdAlphabet(a) == {Heading(a), PLUGIN_ROOT, SKILL_CALL, TEMPLATES, SLASH, "Use "}

NoOutput == [skill_md |-> <<>>, scripts |-> <<>>]
NoSource == [manifest |-> <<>>, hasManifest |-> FALSE, scripts |-> <<>>]
NoShared == [dirs |-> {}, files |-> <<>>]
NoPath == <<>>

SkillIdle ==
    /\ source = NoSource
    /\ sharedFs = NoShared
    /\ output = NoOutput
    /\ pc = "idle"

PathIdle ==
    /\ cwd = <<>>
    /\ dirs = {}
    /\ install_path = NoPath
    /\ called = "none"

MdIdle ==
    /\ skill_name = ""
    /\ input = <<>>
    /\ content = <<>>
    /\ arg = <<>>
    /\ calls = 0

InitMd ==
    /\ adapter \in ADAPTERS
    /\ skill_name \in SkillNames
    /\ input \in SeqsUpTo(MdAlphabet(adapter), MaxMdLen)
    /\ content = input
    /\ arg = <<>>
    /\ calls = 0
    /\ SkillIdle
    /\ PathIdle

InitCodexMd ==
    /\ adapter = "codex"
    /\ skill_name = "sf-apex"
    /\ input \in SeqsUpTo(RenameAlphabet, MaxLen)
    /\ content = input
    /\ arg = <<>>
    /\ calls = 0
    /\ SkillIdle
    /\ PathIdle

OpenCodeTransformSkillMd ==
    /\ adapter = "opencode"
    /\ calls < MaxCalls
    /\ arg' = content
    /\ content' = OpenCode_transform_skill_md(content, skill_name)
    /\ calls' = calls + 1
    /\ UNCHANGED <<adapter, skill_name, input, skillVars, pathVars>>

CodexTransformSkillMd ==
    /\ adapter = "codex"
    /\ calls < MaxCalls
    /\ arg' = content
    /\ content' = Codex_transform_skill_md(content, skill_name)
    /\ calls' = calls + 1
    /\ UNCHANGED <<adapter, skill_name, input, skillVars, pathVars>>

GeminiTransformSkillMd ==
    /\ adapter = "gemini"
    /\ calls < MaxCalls
    /\ arg' = content
    /\ content' = Gemini_transform_skill_md(content, skill_name)
    /\ calls' = calls + 1
    /\ UNCHANGED <<adapter, skill_name, input, skillVars, pathVars>>

NextMd ==
    \/ OpenCodeTransformSkillMd
    \/ CodexTransformSkillMd
    \/ GeminiTransformSkillMd

SpecMd == InitMd /\ [][NextMd]_vars

NextCodexMd == CodexTransformSkillMd

SpecCodexMd == InitCodexMd /\ [][NextCodexMd]_vars

-----------------------------------------------------------------------------
(* Whole-skill transformation: transform_skill on a source skill and a     *)
(* shared-modules root.                                                    *)

EmptyMap == [k \in {} |-> <<>>]

\* "Uses templates/ and docs/ for output."
E2EManifest == <<"Uses ", TEMPLATES, SLASH, " and ", DOCS, SLASH, " for output.">>
PlainManifest == <<"Use ", SKILL_CALL>>

\* "from shared.lsp_engine import connect"
E2EScript == <<FROM, SP, SHARED, DOT, "lsp_engine", SP, IMPORT, SP, "connect">>
ImportScript == <<IMPORT, SP, SHARED, DOT, "code_analyzer">>
LspClientScript == <<"client = ", "lsp_client", "()">>
AnalyzerScript == <<"# runs the ", "code_analyzer">>
PlainScript == <<"print(1)">>

ValidateKey == <<"validate.py">>
\* a script of the skill at scripts/shared/lsp-engine/client.py
LocalSharedKey == <<SHARED, LSP_ENGINE, "client.py">>

ScriptTexts == {E2EScript, ImportScript, LspClientScript, AnalyzerScript, PlainScript}

SourceScripts ==
    {EmptyMap}
    \cup {[k \in {ValidateKey} |-> t] : t \in ScriptTexts}
    \cup {[k \in {LocalSharedKey} |-> PlainScript]}
    \cup {[k \in {ValidateKey, LocalSharedKey} |->
              IF k = ValidateKey THEN t ELSE PlainScript] : t \in ScriptTexts}

Sources ==
    {[manifest |-> m, hasManifest |-> TRUE, scripts |-> sc] :
        m \in {E2EManifest, PlainManifest}, sc \in SourceScripts}
    \cup {[manifest |-> <<>>, hasManifest |-> FALSE, scripts |-> sc] :
        sc \in SourceScripts}

PyFrom == <<FROM, SP, SHARED, DOT, "foo", SP, IMPORT, SP, "connect">>
PyImport == <<IMPORT, SP, SHARED, DOT, "lsp_engine">>
PyPlain == <<"pass">>
YmlFrom == <<"# ", FROM, SP, SHARED, DOT, "foo">>
XmlText == <<"<ruleset/>">>
DocText == <<"notes">>

SharedPaths ==
    {<<LSP_ENGINE, "client.py">>, <<LSP_ENGINE, "sub", "util.py">>,
     <<LSP_ENGINE, "config.yml">>,
     <<CODE_ANALYZER, "analyzer.py">>, <<CODE_ANALYZER, "rules.yml">>,
     <<CODE_ANALYZER, "pmd", "ruleset.xml">>, <<CODE_ANALYZER, "notes.txt">>,
     <<"other", "helper.py">>}

SharedText(p) ==
    CASE p = <<LSP_ENGINE, "client.py">> -> PyFrom
      [] p = <<LSP_ENGINE, "sub", "util.py">> -> PyImport
      [] p = <<CODE_ANALYZER, "analyzer.py">> -> PyFrom
      [] p = <<"other", "helper.py">> -> PyPlain
      [] p \in {<<LSP_ENGINE, "config.yml">>, <<CODE_ANALYZER, "rules.yml">>} -> YmlFrom
      [] p = <<CODE_ANALYZER, "pmd", "ruleset.xml">> -> XmlText
      [] OTHER -> DocText

\* Every shared root: any set of the files, and the directories that exist
\* (a directory holding a file exists; an empty one may exist or not)
SharedRoots ==
    {[dirs |-> d, files |-> [p \in ps |-> SharedText(p)]] :
        ps \in SUBSET SharedPaths, d \in SUBSET {LSP_ENGINE, CODE_ANALYZER}}

InitSkill ==
    /\ adapter \in ADAPTERS
    /\ skill_name = "sf-apex"
    /\ source \in Sources
    /\ sharedFs \in {fs \in SharedRoots :
            \A p \in DOMAIN fs.files :
                p[1] \in {LSP_ENGINE, CODE_ANALYZER} => p[1] \in fs.dirs}
    /\ output = NoOutput
    /\ pc = "ready"
    /\ input = <<>>
    /\ content = <<>>
    /\ arg = <<>>
    /\ calls = 0
    /\ PathIdle

OpenCodeTransformSkill ==
    /\ adapter = "opencode"
    /\ pc = "ready"
    /\ IF source.hasManifest
       THEN /\ output' = OpenCode_transform_skill(source, sharedFs, skill_name)
            /\ pc' = "done"
       ELSE /\ output' = NoOutput
            /\ pc' = "failed"
    /\ UNCHANGED <<adapter, skill_name, input, content, arg, calls,
                   source, sharedFs, pathVars>>

CodexTransformSkill ==
    /\ adapter = "codex"
    /\ pc = "ready"
    /\ IF source.hasManifest
       THEN /\ output' = Codex_transform_skill(source, sharedFs, skill_name)
            /\ pc' = "done"
       ELSE /\ output' = NoOutput
            /\ pc' = "failed"
    /\ UNCHANGED <<adapter, skill_name, input, content, arg, calls,
                   source, sharedFs, pathVars>>

GeminiTransformSkill ==
    /\ adapter = "gemini"
    /\ pc = "ready"
    /\ IF source.hasManifest
       THEN /\ output' = Gemini_transform_skill(source, sharedFs, skill_name)
            /\ pc' = "done"
       ELSE /\ output' = NoOutput
            /\ pc' = "failed"
    /\ UNCHANGED <<adapter, skill_name, input, content, arg, calls,
                   source, sharedFs, pathVars>>

NextSkill ==
    \/ OpenCodeTransformSkill
    \/ CodexTransformSkill
    \/ GeminiTransformSkill

SpecSkill == InitSkill /\ [][NextSkill]_vars

-----------------------------------------------------------------------------
(* Install path: default_install_path read while the project's            *)
(* directories come and go.                                                *)

WorkDirs == {<<"proj">>, <<"home", "dev", "repo">>}

InstallDirs ==
    {wd \o d : wd \in WorkDirs,
               d \in {<<".opencode", "skill">>, <<".claude", "skills">>}}

InitPath ==
    /\ adapter \in ADAPTERS
    /\ cwd \in WorkDirs
    /\ dirs \in SUBSET InstallDirs
    /\ install_path = NoPath
    /\ called = "none"
    /\ MdIdle
    /\ SkillIdle

OpenCodeDefaultInstallPath ==
    /\ adapter = "opencode"
    /\ install_path' = OpenCode_default_install_path(cwd, dirs)
    /\ called' = "opencode"
    /\ UNCHANGED <<adapter, cwd, dirs, skill_name, input, content, arg, calls, skillVars>>

CodexDefaultInstallPath ==
    /\ adapter = "codex"
    /\ install_path' = Codex_default_install_path(cwd, dirs)
    /\ called' = "codex"
    /\ UNCHANGED <<adapter, cwd, dirs, skill_name, input, content, arg, calls, skillVars>>

GeminiDefaultInstallPath ==
    /\ adapter = "gemini"
    /\ install_path' = Gemini_default_install_path(cwd, dirs)
    /\ called' = "gemini"
    /\ UNCHANGED <<adapter, cwd, dirs, skill_name, input, content, arg, calls, skillVars>>

\* The environment: a directory is created or removed, the process changes
\* its working directory
Mkdir ==
    /\ \E d \in InstallDirs \ dirs : dirs' = dirs \cup {d}
    /\ UNCHANGED <<adapter, cwd, install_path, called, skill_name, input,
                   content, arg, calls, skillVars>>

Rmdir ==
    /\ \E d \in dirs : dirs' = dirs \ {d}
    /\ UNCHANGED <<adapter, cwd, install_path, called, skill_name, input,
                   content, arg, calls, skillVars>>

Chdir ==
    /\ \E wd \in WorkDirs \ {cwd} : cwd' = wd
    /\ UNCHANGED <<adapter, dirs, install_path, called, skill_name, input,
                   content, arg, calls, skillVars>>

NextPath ==
    \/ OpenCodeDefaultInstallPath
    \/ CodexDefaultInstallPath
    \/ GeminiDefaultInstallPath
    \/ Mkdir
    \/ Rmdir
    \/ Chdir

SpecPath == InitPath /\ [][NextPath]_vars

-----------------------------------------------------------------------------
(* Properties *)

RECURSIVE CountFrom(_, _, _)
CountFrom(s, p, i) ==
    IF i > Len(s) THEN 0
    ELSE IF IsAt(s, p, i) THEN 1 + CountFrom(s, p, i + Len(p))
    ELSE CountFrom(s, p, i + 1)

\* the number of non-overlapping occurrences of p in s
Count(s, p) == CountFrom(s, p, 1)

\* a text holds one of the four substrings _needs_shared_modules looks for
MentionsShared(text) ==
    \/ Contains(text, <<"lsp_client">>)
    \/ Contains(text, <<"code_analyzer">>)
    \/ Contains(text, <<FROM, SP, SHARED>>)
    \/ Contains(text, <<IMPORT, SP, SHARED>>)

SourceMentionsShared == \E k \in DOMAIN source.scripts : MentionsShared(source.scripts[k])

\* a key prefixed "shared/"
IsSharedKey(k) == Len(k) >= 2 /\ k[1] = SHARED

SharedKey(p) == <<SHARED>> \o p

\* the files of the shared root that are source files of lsp-engine, or
\* source or configuration files of code_analyzer
Stageable(fs) ==
    {p \in DOMAIN fs.files :
        \/ p[1] = LSP_ENGINE /\ Suffix(p[Len(p)]) = ".py"
        \/ p[1] = CODE_ANALYZER /\ Suffix(p[Len(p)]) \in {".py", ".yml", ".xml"}}

\* the content argument held two back-quoted occurrences of w sharing a back-quote
SharesTick(text, w) == Contains(text, <<TICK, w, TICK, w, TICK>>)

\* the returned text without the usage section this call appended
C1_Body ==
    IF Contains(arg, <<CodexHeading>>)
    THEN content
    ELSE SubSeq(content, 1, Len(content) - Len(codex_section(skill_name)))

\* C1 (as claimed): after Codex's transform_skill_md the returned text holds
\* none of "templates/", "`templates`", "docs/", "`docs`".
C1_NoDirectoryNameRemains ==
    (adapter = "codex" /\ calls >= 1) =>
        /\ ~Contains(content, <<TEMPLATES, SLASH>>)
        /\ ~Contains(content, <<TICK, TEMPLATES, TICK>>)
        /\ ~Contains(content, <<DOCS, SLASH>>)
        /\ ~Contains(content, <<TICK, DOCS, TICK>>)

\* C1 (amended): the returned text is the renamed body, followed by the
\* usage section exactly when the argument did not hold the heading; the
\* body holds no "templates/" and no "docs/", and holds "`templates`" or
\* "`docs`" only where the common-transformed argument held two such
\* occurrences sharing a back-quote.
C1_RenamedOutsideAppendedSection ==
    (adapter = "codex" /\ calls >= 1) =>
        LET sec == codex_section(skill_name)
            n == Len(content) - Len(sec)
            c0 == _common_skill_md_transforms(arg)
        IN  /\ ~Contains(arg, <<CodexHeading>>) =>
                  (n >= 0 /\ SubSeq(content, n + 1, Len(content)) = sec)
            /\ ~Contains(C1_Body, <<TEMPLATES, SLASH>>)
            /\ ~Contains(C1_Body, <<DOCS, SLASH>>)
            /\ Contains(C1_Body, <<TICK, TEMPLATES, TICK>>) => SharesTick(c0, TEMPLATES)
            /\ Contains(C1_Body, <<TICK, DOCS, TICK>>) => SharesTick(c0, DOCS)
            /\ (Contains(arg, <<CodexHeading>>) /\ ~SharesTick(c0, TEMPLATES)
                    /\ ~SharesTick(c0, DOCS)) => C1_NoDirectoryNameRemains

C1_Witness ==
    /\ adapter = "codex"
    /\ calls = 1
    /\ ~Contains(arg, <<CodexHeading>>)
    /\ Contains(arg, <<TEMPLATES, SLASH>>)
    /\ Contains(arg, <<TICK, DOCS, TICK>>)
    /\ Contains(content, <<ASSETS, SLASH, TICK, REFERENCES, TICK>>)

C3_MentionImpliesSharedKey ==
    (pc = "done" /\ \E k \in DOMAIN output.scripts : MentionsShared(output.scripts[k])) =>
        \E k \in DOMAIN output.scripts : IsSharedKey(k)

\* C3 (amended): if a script of the output mapping mentions the shared
\* modules and the shared root holds a .py file under lsp-engine or a .py,
\* .yml or .xml file under code_analyzer, the output mapping has a key
\* prefixed "shared/".
C3_MentionAndStageableImpliesSharedKey ==
    (/\ pc = "done"
     /\ \E k \in DOMAIN output.scripts : MentionsShared(output.scripts[k])
     /\ Stageable(sharedFs) # {}) =>
        \E k \in DOMAIN output.scripts : IsSharedKey(k)

C3_Witness ==
    /\ pc = "done"
    /\ DOMAIN source.scripts = {ValidateKey}
    /\ source.scripts[ValidateKey] = LspClientScript
    /\ Stageable(sharedFs) = {<<CODE_ANALYZER, "rules.yml">>}
    /\ DOMAIN output.scripts = {ValidateKey, SharedKey(<<CODE_ANALYZER, "rules.yml">>)}

\* C4 (as claimed): if no script mentions the shared modules, the output
\* mapping has no key prefixed "shared/".
C4_NoMentionNoSharedKey ==
    (pc = "done" /\ ~SourceMentionsShared) =>
        \A k \in DOMAIN output.scripts : ~IsSharedKey(k)

\* C4 (amended): if no script mentions the shared modules, the output
\* mapping is the mapping of the skill's own scripts: bundling adds no key
\* and changes no content, whatever the shared root holds.
C4_NoMentionNothingBundled ==
    (pc = "done" /\ ~SourceMentionsShared) => output.scripts = source.scripts

C4_Witness ==
    /\ pc = "done"
    /\ ~SourceMentionsShared
    /\ DOMAIN source.scripts = {ValidateKey}
    /\ Stageable(sharedFs) # {}
    /\ output.scripts = source.scripts

\* text holds "from shared.<name>" for the word token name
HoldsFromShared(text, name) == Contains(text, <<FROM, SP, SHARED, DOT, name>>)

\* C5: whenever a shared .py file holding "from shared.<name>" is staged,
\* the staged content holds "from .shared.<name>" and no longer holds
\* "from shared.<name>".
C5_StagedImportsRewritten ==
    (pc = "done" /\ SourceMentionsShared) =>
        \A p \in Stageable(sharedFs) : \A name \in WordTokens :
            (Suffix(p[Len(p)]) = ".py" /\ HoldsFromShared(sharedFs.files[p], name)) =>
                /\ SharedKey(p) \in DOMAIN output.scripts
                /\ Contains(output.scripts[SharedKey(p)], <<FROM, SP, DOT, SHARED, DOT, name>>)
                /\ ~HoldsFromShared(output.scripts[SharedKey(p)], name)

C6_Scenario ==
    /\ adapter = "codex"
    /\ source.hasManifest
    /\ source.manifest = E2EManifest
    /\ DOMAIN source.scripts = {ValidateKey}
    /\ source.scripts[ValidateKey] = E2EScript

C6_Manifest ==
    <<"Uses ", ASSETS, SLASH, " and ", REFERENCES, SLASH, " for output.">>
        \o codex_section(skill_name)

\* C6 (as claimed): in the end-to-end scenario the manifest is renamed and
\* gets the usage section, the script's import line reads the local-relative
\* form, and every file under lsp-engine is staged under shared/lsp-engine/.
C6_EndToEndAsClaimed ==
    (pc = "done" /\ C6_Scenario) =>
        /\ output.skill_md = C6_Manifest
        /\ output.scripts[ValidateKey] =
               <<FROM, SP, DOT, SHARED, DOT, "lsp_engine", SP, IMPORT, SP, "connect">>
        /\ \A p \in DOMAIN sharedFs.files :
               p[1] = LSP_ENGINE => SharedKey(p) \in DOMAIN output.scripts

\* C6 (amended): in the end-to-end scenario the manifest is renamed and gets
\* the usage section, the script is returned under its original path with
\* its content unchanged, and every .py file under lsp-engine is staged
\* under shared/lsp-engine/.
C6_EndToEnd ==
    (pc # "ready" /\ C6_Scenario) =>
        /\ pc = "done"
        /\ output.skill_md = C6_Manifest
        /\ output.scripts[ValidateKey] = E2EScript
        /\ \A p \in DOMAIN sharedFs.files :
               (p[1] = LSP_ENGINE /\ Suffix(p[Len(p)]) = ".py") =>
                   /\ SharedKey(p) \in DOMAIN output.scripts
                   /\ SharedKey(p)[2] = LSP_ENGINE

C6_Witness ==
    /\ pc = "done"
    /\ C6_Scenario
    /\ {p \in DOMAIN sharedFs.files : p[1] = LSP_ENGINE} =
           {<<LSP_ENGINE, "client.py">>, <<LSP_ENGINE, "sub", "util.py">>,
            <<LSP_ENGINE, "config.yml">>}
    /\ SharedKey(<<LSP_ENGINE, "sub", "util.py">>) \in DOMAIN output.scripts
    /\ SharedKey(<<LSP_ENGINE, "config.yml">>) \notin DOMAIN output.scripts

ClaudePath == cwd \o <<".claude", "skills">>
OpenCodePath == cwd \o <<".opencode", "skill">>

C8_Bundled(p) ==
    IF adapter = "opencode" /\ Suffix(p[Len(p)]) = ".py"
    THEN _rewrite_shared_imports(sharedFs.files[p])
    ELSE sharedFs.files[p]

\* C8: when bundling runs and a bundled key is a key of a script copied
\* from the source, the call returns, the mapping holds the bundled content
\* under that key, every other copied script is as copied, and the manifest
\* text is the transformed manifest.
C8_LastWriterWins ==
    (pc # "ready" /\ source.hasManifest /\ SourceMentionsShared) =>
        /\ pc = "done"
        /\ output.skill_md = transform_skill_md(adapter, source.manifest, skill_name)
        /\ \A k \in DOMAIN source.scripts :
               /\ k \in DOMAIN output.scripts
               /\ output.scripts[k] =
                      IF IsSharedKey(k) /\ Tail(k) \in Stageable(sharedFs)
                      THEN C8_Bundled(Tail(k))
                      ELSE source.scripts[k]

C8_Witness ==
    /\ pc = "done"
    /\ SourceMentionsShared
    /\ DOMAIN source.scripts = {ValidateKey, LocalSharedKey}
    /\ Tail(LocalSharedKey) \in Stageable(sharedFs)
    /\ output.scripts[LocalSharedKey] # source.scripts[LocalSharedKey]
    /\ output.scripts[ValidateKey] = source.scripts[ValidateKey]

\* the keys the call added to the copied scripts
AddedKeys == DOMAIN output.scripts \ DOMAIN source.scripts

\* C9: a missing shared subtree is not an error: the call returns; a
\* missing lsp-engine adds no key below shared/lsp-engine and the files of
\* code_analyzer are still staged; likewise with the two exchanged; with
\* both missing the output is the base output.
C9_MissingSubtreeContributesNothing ==
    (pc # "ready" /\ source.hasManifest /\ SourceMentionsShared) =>
        /\ pc = "done"
        /\ ~exists(sharedFs, LSP_ENGINE) =>
               /\ \A k \in AddedKeys : k[2] # LSP_ENGINE
               /\ \A p \in Stageable(sharedFs) :
                      p[1] = CODE_ANALYZER => SharedKey(p) \in DOMAIN output.scripts
        /\ ~exists(sharedFs, CODE_ANALYZER) =>
               /\ \A k \in AddedKeys : k[2] # CODE_ANALYZER
               /\ \A p \in Stageable(sharedFs) :
                      p[1] = LSP_ENGINE => SharedKey(p) \in DOMAIN output.scripts
        /\ (~exists(sharedFs, LSP_ENGINE) /\ ~exists(sharedFs, CODE_ANALYZER)) =>
               output = Base_transform_skill(adapter, source, skill_name)

C9_Witness ==
    /\ pc = "done"
    /\ adapter = "gemini"
    /\ SourceMentionsShared
    /\ ~exists(sharedFs, LSP_ENGINE)
    /\ exists(sharedFs, CODE_ANALYZER)
    /\ SharedKey(<<CODE_ANALYZER, "analyzer.py">>) \in AddedKeys

\* C10: when bundling runs, the keys of the output mapping are the copied
\* scripts' keys and "shared/<path>" for exactly the .py files below
\* lsp-engine and the .py, .yml and .xml files below code_analyzer, <path>
\* being the file's path below the shared root; a .yml or .xml file's
\* content is staged unchanged.
C10_StagedSetExact ==
    (pc = "done" /\ SourceMentionsShared) =>
        /\ DOMAIN output.scripts =
               DOMAIN source.scripts \cup {SharedKey(p) : p \in Stageable(sharedFs)}
        /\ \A p \in Stageable(sharedFs) :
               Suffix(p[Len(p)]) \in {".yml", ".xml"} =>
                   output.scripts[SharedKey(p)] = sharedFs.files[p]

C10_Witness ==
    /\ pc = "done"
    /\ adapter = "opencode"
    /\ SourceMentionsShared
    /\ DOMAIN sharedFs.files = SharedPaths
    /\ output.scripts[SharedKey(<<CODE_ANALYZER, "rules.yml">>)] = YmlFrom
    /\ SharedKey(<<LSP_ENGINE, "config.yml">>) \notin DOMAIN output.scripts
    /\ SharedKey(<<"other", "helper.py">>) \notin DOMAIN output.scripts

====
